---------------------------- MODULE Spec2Model ----------------------------
(***************************************************************************)
(* A model of the keystore application-authentication code:                *)
(*   security/keystore/appauth/manifest_parser.c   (manifest format reader)*)
(*   security/keystore/appauth/sign_verify.c       (trust verifier)        *)
(*   security/keystore/appauth/file_hash_verify.c  (file digest engine)    *)
(*   security/keystore/client.c                    (client id derivation)  *)
(*                                                                         *)
(* Each component has its own specification (SpecReader and SpecIter for   *)
(* the format reader, SpecVerify, SpecHash, SpecClient); the variables of  *)
(* the other components stay at their idle values.                         *)
(***************************************************************************)
EXTENDS Integers, Sequences, FiniteSets, TLC

VARIABLES
    mf,      \* the manifest blob handed to the format reader
    ctx,     \* struct mf_files_ctx owned by the caller of the iterator
    last,    \* the last format-reader call: its arguments, result and reads
    hist,    \* iterator history since the last mf_init_file_list_ctx
    vm,      \* one call of verify_manifest: where it is and what it met
    hcfg,    \* build and module configuration of the digest engine
    file,    \* the struct file being digested
    th,      \* the callers of the digest engine, one record per thread
    kc       \* one call of keystore_calc_clientid

parserVars == <<mf, ctx, last, hist>>

hashVars == <<hcfg, file, th>>

vars == <<mf, ctx, last, hist, vm, hcfg, file, th, kc>>

\* what the actions of one component leave alone
parserOthers == <<vm, hcfg, file, th, kc>>
verifyOthers == <<mf, ctx, last, hist, hcfg, file, th, kc>>
hashOthers == <<mf, ctx, last, hist, vm, kc>>
clientOthers == <<mf, ctx, last, hist, vm, hcfg, file, th>>

(***************************************************************************)
(* Bounds of the model.                                                    *)
(***************************************************************************)
\* length of the raw (unstructured) chunk areas enumerated byte by byte
RawLen == 5
\* most file entries in a generated app-data record
MaxFiles == 2
\* most mf_get_next_file calls after one mf_init_file_list_ctx
MaxNextCalls == 3
\* the clock and the certificate's validity bounds range over 0..MaxTime
MaxTime == 2
\* the largest file digested, in bytes
MaxFileSize == 3
\* most chunks put before the NAME chunk of a generated chunk list
MaxFill == 11

(***************************************************************************)
(* manifest_parser.c                                                       *)
(***************************************************************************)
MAX_CHUNKS == 10

\* uint16_t arithmetic of the scan position
U16Mod == 65536

\* digest_len[]: sha1, sha224, sha256, sha384, sha512
digest_len == <<20, 28, 32, 48, 64>>

\* sizeof(digest_len)
DigestLenCount == Len(digest_len)

\* sizeof(struct mf_chunk): type (1) + len (2)
ChunkHdr == 3

\* chunk type tags of manifest_parser.h
TYPE_MANIFEST_NAME == 1
TYPE_MANIFEST_DATA == 2
TYPE_MANIFEST_PUBLIC_KEY == 3
TYPE_MANIFEST_CERTIFICATE == 4
TYPE_MANIFEST_SIGNATURE == 5

\* struct mf_app_data of manifest_parser.h: 8 bytes of fixed fields, then
\* app_name[]; num_files and app_name_len are its last two fixed bytes
AppHdr == 8
NumFilesOff == 6
AppNameLenOff == 7

\* the cap of mf_get_name
NameCap == 256

\* a NULL pointer, as an offset into the chunk area
NULL == -1

Max(a, b) == IF a >= b THEN a ELSE b

(***************************************************************************)
(* Memory.  m.data is the memory from env->data on; the parser is given no *)
(* buffer length, so bytes at and after env->len are whatever memory holds *)
(* there: the rest of m.data, and after it bytes of value m.fill.          *)
(***************************************************************************)
MemAt(m, i) == IF i < Len(m.data) THEN m.data[i + 1] ELSE m.fill

\* a packed little-endian uint16_t
U16At(m, i) == MemAt(m, i) + 256 * MemAt(m, i + 1)

\* strlen(): the offset of the first NUL from start on.  Beyond m.data the
\* memory holds m.fill: a nonzero fill does not terminate the string, and
\* strlen reads on through the memory that follows.  If it returns, it met
\* a NUL at least NameCap + Len(m.data) bytes further on, so that the result
\* exceeds every length it is compared with; otherwise the read faults
\* (StrRunsOff tells when both can happen).  How far on the NUL is, and how
\* much memory is mapped after m.data, is not in m: the callers draw it.
RECURSIVE StrLenFrom(_, _, _)
StrLenFrom(m, start, k) ==
    IF start + k >= Len(m.data)
    THEN IF m.fill = 0 THEN k ELSE k + NameCap + Len(m.data)
    ELSE IF m.data[start + k + 1] = 0 THEN k
         ELSE StrLenFrom(m, start, k + 1)

strlen(m, start) == StrLenFrom(m, start, 0)

\* strlen leaves the modelled bytes without having met a NUL
StrRunsOff(m, start) == strlen(m, start) > NameCap + Len(m.data) - 1

\* how much further than the nearest place modelled the first NUL lies,
\* when strlen returns from a string that left the modelled bytes
FarNuls == {0, 1, 1000}

\* how many bytes are mapped after m.data when strlen faults
MappedAfter == {0, 1, 600}

\* the distances to draw for a call whose strlen runs off (runsOff) or not
FarsOf(runsOff) == IF runsOff THEN FarNuls ELSE {0}

\* the last byte strlen reads when it returns: the terminator, which lies
\* far bytes further than the nearest one when the string left m.data
StrLenLastRead(m, start, far) ==
    start + strlen(m, start) + (IF StrRunsOff(m, start) THEN far ELSE 0)

\* the highest offset read when a call faults with the memory mapped up
\* to lastMapped: the last mapped byte, if strlen got to read at all, or
\* else what the call read before strlen, up to offset before; when the
\* byte at before is the first read of the call and is not mapped, the
\* call faults on it, having read nothing (-1)
FaultLastRead(m, start, before, mapped) ==
    LET lastMapped == Len(m.data) - 1 + mapped
    IN  IF before > lastMapped THEN -1
        ELSE IF start <= lastMapped THEN lastMapped
        ELSE before

(***************************************************************************)
(* mf_get_chunk                                                            *)
(***************************************************************************)
\* line 48: the bound check on the chunk of the requested type
ChunkFits(pos, clen, envlen) == pos + clen + ChunkHdr <= envlen + 1

\* line 44: the loop condition
ScanContinues(pos, i, envlen) == pos < envlen /\ i < MAX_CHUNKS

\* line 53: pos += chunk->len + 3 on a uint16_t
NextPos(pos, clen) == (pos + clen + ChunkHdr) % U16Mod

RECURSIVE ScanChunks(_, _, _, _, _, _)
ScanChunks(m, type, i, pos, maxRead, wrapped) ==
    IF ~ScanContinues(pos, i, m.len)
    THEN [found |-> FALSE, pos |-> 0, len |-> 0, iters |-> i,
          maxRead |-> maxRead, wrapped |-> wrapped, hit |-> FALSE]
    ELSE LET ctype == MemAt(m, pos)
             clen  == U16At(m, pos + 1)
             rd    == Max(maxRead, pos + 2)
         IN  IF ctype = type
             THEN [found |-> ChunkFits(pos, clen, m.len), pos |-> pos,
                   len |-> clen, iters |-> i + 1, maxRead |-> rd,
                   wrapped |-> wrapped, hit |-> TRUE]
             ELSE ScanChunks(m, type, i + 1, NextPos(pos, clen), rd,
                             wrapped \/ pos + clen + ChunkHdr >= U16Mod)

\* found: a chunk is returned; pos, len: its offset and chunk->len;
\* hit: a chunk of the type was met; iters: headers read; maxRead: the
\* highest offset of the chunk area read (-1: none); wrapped: pos wrapped
mf_get_chunk(m, type) ==
    IF m.null
    THEN [found |-> FALSE, pos |-> 0, len |-> 0, iters |-> 0,
          maxRead |-> -1, wrapped |-> FALSE, hit |-> FALSE]
    ELSE ScanChunks(m, type, 0, 0, -1, FALSE)

\* mf_get_chunk_data: the payload offset and *len (0 when absent)
mf_get_chunk_data(m, type) ==
    LET c == mf_get_chunk(m, type)
    IN  [found |-> c.found,
         off |-> IF c.found THEN c.pos + ChunkHdr ELSE NULL,
         len |-> IF c.found THEN c.len ELSE 0,
         maxRead |-> c.maxRead, wrapped |-> c.wrapped, iters |-> c.iters]

mf_get_version(m) == IF m.null THEN 0 ELSE m.version

mf_get_name(m, far) ==
    LET d == mf_get_chunk_data(m, TYPE_MANIFEST_NAME)
    IN  IF d.found /\ d.len < NameCap
        THEN [found |-> strlen(m, d.off) + 1 = d.len, off |-> d.off,
              len |-> d.len,
              maxRead |-> Max(d.maxRead, StrLenLastRead(m, d.off, far)),
              wrapped |-> d.wrapped, iters |-> d.iters]
        ELSE [d EXCEPT !.found = FALSE]

mf_get_app_data(m, far) ==
    LET d == mf_get_chunk_data(m, TYPE_MANIFEST_DATA)
    IN  IF d.found
        THEN [found |-> strlen(m, d.off + AppHdr) + 1
                          = MemAt(m, d.off + AppNameLenOff),
              off |-> d.off, len |-> d.len,
              maxRead |-> Max(d.maxRead,
                              Max(d.off + AppNameLenOff,
                                  StrLenLastRead(m, d.off + AppHdr, far))),
              wrapped |-> d.wrapped, iters |-> d.iters]
        ELSE d

(***************************************************************************)
(* The file-list iterator.  bytes_left is a size_t: the model keeps the    *)
(* representative of its value modulo 2^64 that lies in (-2^63, 2^63), so  *)
(* a negative bytes_left stands for the wrapped value 2^64 + bytes_left.   *)
(***************************************************************************)
\* unsigned a <= b on the representatives
ULeq(a, b) == IF (a >= 0) = (b >= 0) THEN a <= b ELSE b < 0

\* line 118
InitBytesLeft(len, app_name_len) == len - AppHdr - app_name_len

\* lines 112-128: the ctx written and the value returned
mf_init_file_list_ctx(m, c) ==
    LET d == mf_get_chunk_data(m, TYPE_MANIFEST_DATA)
    IN  IF d.found
        THEN LET nf  == MemAt(m, d.off + NumFilesOff)
                 anl == MemAt(m, d.off + AppNameLenOff)
             IN  [ctx |-> [num_files_left |-> nf,
                           bytes_left |-> InitBytesLeft(d.len, anl),
                           next_file |-> d.off + AppHdr + anl],
                  ret |-> nf, found |-> TRUE,
                  maxRead |-> Max(d.maxRead, d.off + AppNameLenOff)]
        ELSE [ctx |-> c, ret |-> 0, found |-> FALSE, maxRead |-> d.maxRead]

\* line 135: the guard of an advance
CanAdvance(c) ==
    c.num_files_left > 0 /\ c.bytes_left # 0 /\ c.next_file # NULL

\* line 142
NameTerminated(m, c) ==
    strlen(m, c.next_file + 1) + 1 = MemAt(m, c.next_file)

\* line 149
AlgoInTable(algo) == algo < DigestLenCount

\* an entry size that leaves out the byte of the algorithm id
EntrySize_NoAlgoByte(filenamelen, algo) ==
    1 + filenamelen + 4 + digest_len[algo + 1]

\* lines 151-152
EntrySize(filenamelen, algo) == 1 + filenamelen + 5 + digest_len[algo + 1]

\* line 89: the strlen of mf_get_name is reached and runs off
NameStrRunsOff(m) ==
    LET d == mf_get_chunk_data(m, TYPE_MANIFEST_NAME)
    IN  d.found /\ d.len < NameCap /\ StrRunsOff(m, d.off)

\* line 103: the strlen of mf_get_app_data is reached and runs off
AppStrRunsOff(m) ==
    LET d == mf_get_chunk_data(m, TYPE_MANIFEST_DATA)
    IN  d.found /\ StrRunsOff(m, d.off + AppHdr)

\* line 142: the strlen of mf_get_next_file is reached and runs off
FileStrRunsOff(m, c) == CanAdvance(c) /\ StrRunsOff(m, c.next_file + 1)

\* lines 135-160: kind is "file" (a filename is returned), "end" (NULL) or
\* "malformed" (ERR_PTR(-EFAULT))
mf_get_next_file(m, c, far) ==
    IF ~CanAdvance(c)
    THEN [kind |-> "end", ctx |-> c, name |-> NULL, algo |-> 0,
          digest |-> NULL, maxRead |-> -1]
    ELSE LET fnl  == MemAt(m, c.next_file)
             algo == MemAt(m, c.next_file + fnl + 5)
             rdn  == Max(c.next_file, StrLenLastRead(m, c.next_file + 1,
                                                      far))
         IN  IF ~NameTerminated(m, c)
             THEN [kind |-> "malformed", ctx |-> c, name |-> NULL,
                   algo |-> 0, digest |-> NULL, maxRead |-> rdn]
             ELSE IF ~AlgoInTable(algo)
             THEN [kind |-> "end", ctx |-> c, name |-> NULL,
                   algo |-> algo, digest |-> c.next_file + fnl + 6,
                   maxRead |-> Max(rdn, c.next_file + fnl + 5)]
             ELSE [kind |-> "file",
                   ctx |-> [num_files_left |-> c.num_files_left - 1,
                            bytes_left |->
                                c.bytes_left - EntrySize(fnl, algo),
                            next_file |->
                                c.next_file + EntrySize(fnl, algo)],
                   name |-> c.next_file + 1, algo |-> algo,
                   digest |-> c.next_file + fnl + 6,
                   maxRead |-> Max(rdn, c.next_file + fnl + 5)]


(***************************************************************************)
(* The manifests the format reader is run on.                              *)
(***************************************************************************)
\* bytes of the raw chunk areas: the NAME tag, small and large lengths
RawBytes == {0, 1, 255}

\* what memory holds after the blob
FillBytes == {0, 9}

RawBlobs ==
    { [null |-> FALSE, version |-> 1, len |-> l, data |-> d, fill |-> f] :
        l \in 0..RawLen, d \in [1..RawLen -> RawBytes], f \in FillBytes }

NullBlob ==
    [null |-> TRUE, version |-> 0, len |-> 0, data |-> <<>>, fill |-> 0]

\* A file entry as laid out in the DATA chunk: name_len, name, file_size,
\* digest_algo_id, digest.  cut: bytes missing from the end of the digest.
EntryKinds ==
    { [nl |-> 2, name |-> <<97, 0>>, algo |-> 0, cut |-> 0],
      [nl |-> 3, name |-> <<97, 98, 0>>, algo |-> 4, cut |-> 0],
      [nl |-> 3, name |-> <<97, 0, 0>>, algo |-> 0, cut |-> 0],
      [nl |-> 1, name |-> <<97>>, algo |-> 0, cut |-> 0],
      [nl |-> 2, name |-> <<97, 0>>, algo |-> 5, cut |-> 0],
      [nl |-> 2, name |-> <<97, 0>>, algo |-> 2, cut |-> 1] }

DigestBytes(e) ==
    LET n == IF e.algo < DigestLenCount
             THEN digest_len[e.algo + 1] - e.cut ELSE 20 - e.cut
    IN  [i \in 1..n |-> 7]

EntryBytes(e) ==
    <<e.nl>> \o e.name \o <<100, 0, 0, 0>> \o <<e.algo>> \o DigestBytes(e)

RECURSIVE Flatten(_)
Flatten(es) ==
    IF es = <<>> THEN <<>> ELSE EntryBytes(Head(es)) \o Flatten(Tail(es))

\* the app name: terminated at app_name_len - 1, or earlier
AppNames == { <<65, 66, 0>>, <<65, 0, 0>> }

AppPayload(nf, an, es) ==
    <<5, 0, 0, 0, 1, 0, nf, Len(an)>> \o an \o Flatten(es)

Chunk(type, payload) ==
    <<type, Len(payload) % 256, Len(payload) \div 256>> \o payload

\* an optional NAME chunk, the DATA chunk, an optional SIGNATURE chunk;
\* short: how many bytes env->len falls short of the end of the chunks
StructBlob(pre, post, nf, an, es, short, f) ==
    LET d == (IF pre THEN Chunk(TYPE_MANIFEST_NAME, <<110, 0>>) ELSE <<>>)
              \o Chunk(TYPE_MANIFEST_DATA, AppPayload(nf, an, es))
              \o (IF post THEN Chunk(TYPE_MANIFEST_SIGNATURE, <<42>>)
                  ELSE <<>>)
    IN  [null |-> FALSE, version |-> 1, len |-> Len(d) - short,
         data |-> d, fill |-> f]

EntryLists(n) == UNION { [1..k -> EntryKinds] : k \in 0..n }

\* num_files is the number of entries, one less or one more
StructBlobs(n) ==
    { StructBlob(FALSE, FALSE, Max(0, Len(es) + dn), an, es, short, f) :
        dn \in {-1, 0, 1}, an \in AppNames, es \in EntryLists(n),
        short \in 0..2, f \in FillBytes }
    \cup
    { StructBlob(TRUE, post, Len(es), <<65, 66, 0>>, es, 0, 0) :
        post \in BOOLEAN, es \in EntryLists(n) }

RECURSIVE Fillers(_)
Fillers(n) == IF n = 0 THEN <<>> ELSE <<0, 0, 0>> \o Fillers(n - 1)

\* n empty chunks of type 0, then a NAME chunk whose header declares l
\* bytes, then (second) a NAME chunk of one byte; env->len is the end of
\* the bytes, so with a second chunk l = 4 makes the first chunk end at
\* env->len and without one l = 0 does
ScanBlob(n, l, second) ==
    LET d == Fillers(n) \o <<TYPE_MANIFEST_NAME, l, 0>>
             \o (IF second THEN Chunk(TYPE_MANIFEST_NAME, <<0>>) ELSE <<>>)
    IN  [null |-> FALSE, version |-> 1, len |-> Len(d), data |-> d,
         fill |-> 0]

ScanBlobs ==
    { ScanBlob(n, l, second) :
        n \in 0..MaxFill, l \in 0..6, second \in BOOLEAN }

\* the blobs of the accessors, and those of the file-list iterator
\* a DATA chunk that ends in an app name with no NUL, before memory of
\* either fill
OpenAppNameBlobs ==
    { StructBlob(FALSE, FALSE, 0, <<65, 66, 67>>, <<>>, 0, f) :
        f \in FillBytes }

ReaderBlobs ==
    RawBlobs \cup StructBlobs(1) \cup ScanBlobs \cup OpenAppNameBlobs
    \cup {NullBlob}
IterBlobs ==
    StructBlobs(MaxFiles) \cup {NullBlob}
    \cup { b \in RawBlobs : b.len = RawLen /\ b.fill = 0 }

\* the caller's ctx before mf_init_file_list_ctx: zeroed, or stale memory
ZeroCtx == [num_files_left |-> 0, bytes_left |-> 0, next_file |-> NULL]
StaleCtx == [num_files_left |-> 1, bytes_left |-> 30, next_file |-> 0]

ChunkTypes ==
    { TYPE_MANIFEST_NAME, TYPE_MANIFEST_DATA, TYPE_MANIFEST_PUBLIC_KEY,
      TYPE_MANIFEST_CERTIFICATE, TYPE_MANIFEST_SIGNATURE }

NoCall ==
    [op |-> "none", type |-> 0, kind |-> "none", off |-> NULL, len |-> 0,
     ret |-> 0, pos |-> 0, hit |-> FALSE, iters |-> 0, maxRead |-> -1,
     wrapped |-> FALSE, pre |-> ZeroCtx, algo |-> 0, digest |-> NULL]

\* inited: mf_init_file_list_ctx was called; found: it found the DATA
\* chunk; n0: what it returned; b0: the bytes_left it left; succ, ncalls:
\* the mf_get_next_file calls since, those returning a filename and all
NoHist ==
    [inited |-> FALSE, found |-> FALSE, n0 |-> 0, b0 |-> 0, succ |-> 0,
     ncalls |-> 0]

ParserIdle ==
    /\ mf = NullBlob
    /\ ctx = ZeroCtx
    /\ last = NoCall
    /\ hist = NoHist

ReaderInit ==
    /\ mf \in ReaderBlobs
    /\ ctx = ZeroCtx
    /\ last = NoCall
    /\ hist = NoHist

IterInit ==
    /\ mf \in IterBlobs
    /\ ctx \in {ZeroCtx, StaleCtx}
    /\ last = NoCall
    /\ hist = NoHist

(***************************************************************************)
(* The calls of the format reader.                                         *)
(***************************************************************************)
\* a call whose strlen ran off the mapped memory never returned, and no
\* call follows it
Faulted == last.kind = "fault"

\* what is known of a call that faulted in strlen: the reads made before
FaultIn(op, type, maxRead) ==
    [NoCall EXCEPT !.op = op, !.type = type, !.kind = "fault",
                   !.maxRead = maxRead, !.pre = ctx]

Call_mf_get_chunk ==
    \E type \in ChunkTypes :
        LET c == mf_get_chunk(mf, type)
        IN  /\ ~Faulted
            /\ last' = [NoCall EXCEPT
                          !.op = "mf_get_chunk", !.type = type,
                          !.kind = IF c.found THEN "chunk" ELSE "absent",
                          !.pos = c.pos, !.len = c.len, !.hit = c.hit,
                          !.off = IF c.found THEN c.pos ELSE NULL,
                          !.iters = c.iters, !.maxRead = c.maxRead,
                          !.wrapped = c.wrapped, !.pre = ctx]
            /\ UNCHANGED <<mf, ctx, hist, parserOthers>>

\* mf_get_data, mf_get_public_key, mf_get_certificate, mf_get_signature
Call_mf_get_chunk_data ==
    \E type \in ChunkTypes \ {TYPE_MANIFEST_NAME} :
        LET d == mf_get_chunk_data(mf, type)
        IN  /\ ~Faulted
            /\ last' = [NoCall EXCEPT
                          !.op = "mf_get_chunk_data", !.type = type,
                          !.kind = IF d.found THEN "view" ELSE "absent",
                          !.off = d.off, !.len = d.len,
                          !.iters = d.iters, !.maxRead = d.maxRead,
                          !.wrapped = d.wrapped, !.pre = ctx]
            /\ UNCHANGED <<mf, ctx, hist, parserOthers>>

Call_mf_get_version ==
    /\ ~Faulted
    /\ last' = [NoCall EXCEPT
                  !.op = "mf_get_version", !.ret = mf_get_version(mf),
                  !.kind = IF mf.null THEN "absent" ELSE "value",
                  !.pre = ctx]
    /\ UNCHANGED <<mf, ctx, hist, parserOthers>>

Call_mf_get_name ==
    LET c == mf_get_chunk_data(mf, TYPE_MANIFEST_NAME)
    IN  /\ ~Faulted
        /\ \/ \E far \in FarsOf(NameStrRunsOff(mf)) :
                LET d == mf_get_name(mf, far)
                IN  last' = [NoCall EXCEPT
                      !.op = "mf_get_name", !.type = TYPE_MANIFEST_NAME,
                      !.kind = IF d.found THEN "view" ELSE "absent",
                      !.off = IF d.found THEN d.off ELSE NULL,
                      !.len = IF d.found THEN d.len ELSE 0,
                      !.iters = d.iters, !.maxRead = d.maxRead,
                      !.wrapped = d.wrapped, !.pre = ctx]
           \/ /\ NameStrRunsOff(mf)
              /\ \E mapped \in { e \in MappedAfter :
                                   c.maxRead <= Len(mf.data) - 1 + e } :
                    last' = FaultIn("mf_get_name", TYPE_MANIFEST_NAME,
                                    FaultLastRead(mf, c.off, c.maxRead,
                                                  mapped))
        /\ UNCHANGED <<mf, ctx, hist, parserOthers>>

Call_mf_get_app_data ==
    LET c == mf_get_chunk_data(mf, TYPE_MANIFEST_DATA)
    IN  /\ ~Faulted
        /\ \/ \E far \in FarsOf(AppStrRunsOff(mf)) :
                LET d == mf_get_app_data(mf, far)
                IN  last' = [NoCall EXCEPT
                      !.op = "mf_get_app_data", !.type = TYPE_MANIFEST_DATA,
                      !.kind = IF d.found THEN "view" ELSE "absent",
                      !.off = IF d.found THEN d.off ELSE NULL,
                      !.len = IF d.found THEN d.len ELSE 0,
                      !.iters = d.iters, !.maxRead = d.maxRead,
                      !.wrapped = d.wrapped, !.pre = ctx]
           \/ /\ AppStrRunsOff(mf)
              /\ \E mapped \in { e \in MappedAfter :
                                   Max(c.maxRead, c.off + AppNameLenOff)
                                       <= Len(mf.data) - 1 + e } :
                    last' = FaultIn("mf_get_app_data", TYPE_MANIFEST_DATA,
                                    FaultLastRead(mf, c.off + AppHdr,
                                        Max(c.maxRead,
                                            c.off + AppNameLenOff),
                                        mapped))
        /\ UNCHANGED <<mf, ctx, hist, parserOthers>>

Call_mf_init_file_list_ctx ==
    LET r == mf_init_file_list_ctx(mf, ctx)
    IN  /\ ~Faulted
        /\ ctx' = r.ctx
        /\ last' = [NoCall EXCEPT
                      !.op = "mf_init_file_list_ctx",
                      !.type = TYPE_MANIFEST_DATA,
                      !.kind = IF r.found THEN "view" ELSE "absent",
                      !.ret = r.ret, !.maxRead = r.maxRead, !.pre = ctx]
        /\ hist' = [inited |-> TRUE, found |-> r.found, n0 |-> r.ret,
                    b0 |-> r.ctx.bytes_left, succ |-> 0, ncalls |-> 0]
        /\ UNCHANGED <<mf, parserOthers>>

\* lines 131-161; a call that faults does so on its first read, of
\* *ctx->next_file (line 137), when that byte is not mapped, and in the
\* strlen of line 142 otherwise
Call_mf_get_next_file ==
    /\ hist.inited
    /\ hist.ncalls < MaxNextCalls
    /\ ~Faulted
    /\ \/ \E far \in FarsOf(FileStrRunsOff(mf, ctx)) :
             LET r == mf_get_next_file(mf, ctx, far)
             IN  /\ ctx' = r.ctx
                 /\ last' = [NoCall EXCEPT
                               !.op = "mf_get_next_file", !.kind = r.kind,
                               !.off = r.name, !.algo = r.algo,
                               !.digest = r.digest, !.maxRead = r.maxRead,
                               !.pre = ctx]
                 /\ hist' = [hist EXCEPT
                               !.ncalls = @ + 1,
                               !.succ = IF r.kind = "file" THEN @ + 1
                                        ELSE @]
       \/ /\ FileStrRunsOff(mf, ctx)
          /\ ctx' = ctx
          /\ \E mapped \in MappedAfter :
                last' = FaultIn("mf_get_next_file", 0,
                                FaultLastRead(mf, ctx.next_file + 1,
                                              ctx.next_file, mapped))
          /\ hist' = [hist EXCEPT !.ncalls = @ + 1]
    /\ UNCHANGED <<mf, parserOthers>>

(***************************************************************************)
(* The format of section 3 of the specification, used to say which blobs   *)
(* are well formed: every chunk lies inside env->len, the app name and the *)
(* file names end at their declared lengths, the digest algorithms are in  *)
(* the table and the entries fill the DATA payload exactly.                *)
(***************************************************************************)
RECURSIVE RefChunkPos(_, _, _)
RefChunkPos(m, type, pos) ==
    IF pos + ChunkHdr > m.len THEN NULL
    ELSE IF pos + ChunkHdr + U16At(m, pos + 1) > m.len THEN NULL
    ELSE IF MemAt(m, pos) = type THEN pos
    ELSE RefChunkPos(m, type, pos + ChunkHdr + U16At(m, pos + 1))

RefEntrySize(m, off) ==
    1 + MemAt(m, off) + 4 + 1 + digest_len[MemAt(m, off + MemAt(m, off) + 5) + 1]

RECURSIVE RefEntries(_, _, _, _)
RefEntries(m, off, end, n) ==
    IF n = 0 THEN off = end
    ELSE /\ off + 1 + MemAt(m, off) + 5 <= end
         /\ MemAt(m, off) >= 1
         /\ strlen(m, off + 1) = MemAt(m, off) - 1
         /\ MemAt(m, off + MemAt(m, off) + 5) < DigestLenCount
         /\ off + RefEntrySize(m, off) <= end
         /\ RefEntries(m, off + RefEntrySize(m, off), end, n - 1)

RefNumFiles(m) ==
    MemAt(m, RefChunkPos(m, TYPE_MANIFEST_DATA, 0) + ChunkHdr + NumFilesOff)

WellFormedRecord(m) ==
    /\ ~m.null
    /\ RefChunkPos(m, TYPE_MANIFEST_DATA, 0) # NULL
    /\ LET p   == RefChunkPos(m, TYPE_MANIFEST_DATA, 0)
           d   == p + ChunkHdr
           len == U16At(m, p + 1)
           anl == MemAt(m, d + AppNameLenOff)
       IN  /\ anl >= 1
           /\ AppHdr + anl <= len
           /\ strlen(m, d + AppHdr) = anl - 1
           /\ RefEntries(m, d + AppHdr + anl, d + len, RefNumFiles(m))

Min(a, b) == IF a <= b THEN a ELSE b

(***************************************************************************)
(* Claims on the format reader.                                            *)
(***************************************************************************)
\* C1: mf_get_chunk returns a chunk only if its end, pos + 3 + len, is at
\* most env->len; when the first chunk of the type overruns env->len, even
\* by one byte, the lookup returns absent.
C1_ChunkWithinEnvelope ==
    last.op = "mf_get_chunk" =>
        /\ last.kind = "chunk" => last.pos + ChunkHdr + last.len <= mf.len
        /\ (last.hit /\ last.pos + ChunkHdr + last.len > mf.len)
               => last.kind = "absent"

\* C2: every accessor returns absent on a null blob, and no accessor reads
\* the chunk area at an offset >= env->len: no chunk header is read that is
\* only partly inside env->len, and the 16-bit scan position never wraps.
C2_NoReadPastDeclaredLen ==
    /\ (mf.null /\ last.op # "none") =>
           (last.kind = "absent" /\ last.ret = 0 /\ last.maxRead = -1)
    /\ last.op \in {"mf_get_chunk", "mf_get_chunk_data", "mf_get_name",
                    "mf_get_app_data"} =>
           (last.maxRead < mf.len /\ ~last.wrapped)

\* C3: on a well-formed app-data record of N entries that
\* mf_init_file_list_ctx found, it returns N; the first N consecutive
\* mf_get_next_file calls return a filename and the next returns end; each
\* filename returned takes 1 from num_files_left and
\* 1 + name_len + 4 + 1 + digest_len(algo) from bytes_left and adds the same
\* to the cursor; bytes_left is 0 after the N-th.
C3_IteratorYieldsExactlyN ==
    (hist.inited /\ hist.found /\ WellFormedRecord(mf)) =>
        /\ hist.n0 = RefNumFiles(mf)
        /\ hist.succ = Min(hist.ncalls, hist.n0)
        /\ ctx.num_files_left = hist.n0 - hist.succ
        /\ ctx.num_files_left = 0 => ctx.bytes_left = 0
        /\ last.op = "mf_get_next_file" =>
            /\ last.kind = (IF last.pre.num_files_left > 0
                            THEN "file" ELSE "end")
            /\ last.kind = "end" => ctx = last.pre
            /\ last.kind = "file" =>
                /\ ctx.num_files_left = last.pre.num_files_left - 1
                /\ ctx.bytes_left = last.pre.bytes_left
                                     - RefEntrySize(mf, last.pre.next_file)
                /\ ctx.next_file = last.pre.next_file
                                     + RefEntrySize(mf, last.pre.next_file)
                /\ last.off = last.pre.next_file + 1

\* C3 witness: a well-formed record of two or more entries was iterated to
\* its end, and the call after the last filename returned end.
C3_Witness ==
    /\ hist.inited /\ hist.found /\ WellFormedRecord(mf)
    /\ hist.n0 >= 2
    /\ hist.succ = hist.n0
    /\ hist.ncalls = hist.n0 + 1
    /\ last.op = "mf_get_next_file" /\ last.kind = "end"
    /\ ctx.bytes_left = 0

\* C4: mf_get_next_file does not advance when bytes_left or num_files_left
\* is zero, and rejects a final partial entry: bytes_left never exceeds the
\* value mf_init_file_list_ctx left, and no digest returned ends after the
\* DATA payload.
C4_NoPartialEntry ==
    (hist.inited /\ hist.found /\ last.op = "mf_get_next_file") =>
        /\ (last.pre.bytes_left = 0 \/ last.pre.num_files_left = 0)
               => (last.kind = "end" /\ ctx = last.pre)
        /\ ULeq(ctx.bytes_left, hist.b0)
        /\ last.kind = "file" =>
               last.digest + digest_len[last.algo + 1]
                   <= mf_get_chunk_data(mf, TYPE_MANIFEST_DATA).off
                      + mf_get_chunk_data(mf, TYPE_MANIFEST_DATA).len

\* C5: a filename whose NUL is not at name_len - 1 yields the malformed
\* error with the iterator unchanged, and end (NULL) is returned only when
\* a counter is zero: a digest_algo_id outside the table is not reported
\* as end.
C5_EndOnlyAtZero ==
    (hist.inited /\ last.op = "mf_get_next_file") =>
        /\ (CanAdvance(last.pre)
            /\ strlen(mf, last.pre.next_file + 1) + 1
                   # MemAt(mf, last.pre.next_file))
               => (last.kind = "malformed" /\ ctx = last.pre)
        /\ last.kind = "end" =>
               (last.pre.num_files_left = 0 \/ last.pre.bytes_left = 0)


\* C14: when the DATA chunk is absent or malformed (app_name not ended by
\* its first NUL at app_name_len - 1, or a payload shorter than the 8-byte
\* header plus app_name_len) mf_init_file_list_ctx returns 0 and leaves
\* num_files_left = 0, bytes_left = 0 and no cursor, and mf_get_next_file
\* on that iterator returns end.
C14_InitRejectsMalformed ==
    LET d   == mf_get_chunk_data(mf, TYPE_MANIFEST_DATA)
        bad == \/ ~d.found
               \/ ~mf_get_app_data(mf, 0).found
               \/ d.len < AppHdr + MemAt(mf, d.off + AppNameLenOff)
    IN  (hist.inited /\ bad) =>
            /\ hist.n0 = 0
            /\ ctx.num_files_left = 0
            /\ ctx.bytes_left = 0
            /\ ctx.next_file = NULL
            /\ last.op = "mf_get_next_file" => last.kind = "end"

\* the first NUL of the n bytes from off on is the last of them
FirstNulAtEnd(m, off, n) ==
    /\ n >= 1
    /\ MemAt(m, off + n - 1) = 0
    /\ \A i \in 0..(n - 2) : MemAt(m, off + i) # 0

\* C15: mf_get_name returns the NAME payload iff its length is under 256
\* and its first NUL is its last byte; mf_get_app_data returns the record
\* iff the first NUL of app_name is at app_name_len - 1; the search for the
\* terminator reads no byte after the chunk payload.
C15_TerminatorAtDeclaredEnd ==
    /\ last.op = "mf_get_name" =>
           LET d == mf_get_chunk_data(mf, TYPE_MANIFEST_NAME)
           IN  /\ last.kind = "view" <=>
                      (d.found /\ d.len < NameCap
                       /\ FirstNulAtEnd(mf, d.off, d.len))
               /\ (d.found /\ d.len < NameCap) =>
                      StrLenLastRead(mf, d.off, 0) < d.off + d.len
    /\ last.op = "mf_get_app_data" =>
           LET d == mf_get_chunk_data(mf, TYPE_MANIFEST_DATA)
           IN  /\ last.kind = "view" <=>
                      (d.found
                       /\ FirstNulAtEnd(mf, d.off + AppHdr,
                                        MemAt(mf, d.off + AppNameLenOff)))
               /\ d.found =>
                      StrLenLastRead(mf, d.off + AppHdr, 0)
                          < d.off + d.len

\* the first chunk of the type in a walk of the chunk list from pos on,
\* idx chunks having been passed: where it is and how many precede it
RECURSIVE RefFirst(_, _, _, _)
RefFirst(m, type, pos, idx) ==
    IF pos >= m.len THEN [exists |-> FALSE, pos |-> NULL, idx |-> idx]
    ELSE IF MemAt(m, pos) = type
    THEN [exists |-> TRUE, pos |-> pos, idx |-> idx]
    ELSE RefFirst(m, type, pos + ChunkHdr + U16At(m, pos + 1), idx + 1)

\* C18: mf_get_chunk decides on the first chunk of the type met from left
\* to right: it returns no other chunk, returns absent when that chunk
\* overruns env->len whatever follows it, returns absent when 10 or more
\* chunks precede it, and reads at most 10 chunk headers.
C18_FirstOccurrenceWithinCap ==
    (last.op = "mf_get_chunk" /\ ~mf.null) =>
        LET f == RefFirst(mf, last.type, 0, 0)
        IN  /\ last.iters <= MAX_CHUNKS
            /\ last.kind = "chunk" =>
                   (f.exists /\ last.pos = f.pos /\ f.idx < MAX_CHUNKS)
            /\ ~f.exists => last.kind = "absent"
            /\ (f.exists /\ f.idx >= MAX_CHUNKS) => last.kind = "absent"
            /\ (f.exists
                /\ f.pos + ChunkHdr + U16At(mf, f.pos + 1) > mf.len)
                   => last.kind = "absent"

(***************************************************************************)
(* Error codes.  enum APP_AUTH_ERROR of manifest_verify.h and the errno    *)
(* values of the kernel; verify_manifest and its callers return them       *)
(* negated.                                                                *)
(***************************************************************************)
MALFORMED_MANIFEST == 300
CERTIFICATE_FAILURE == 301
CERTIFICATE_EXPIRED == 302
CAPS_FAILURE == 303
SIGNATURE_FAILURE == 304
EXE_NOT_FOUND == 305
FILE_TOO_BIG == 306
HASH_FAILURE == 307

ENOENT == 2
EIO == 5
EBADF == 9
ENOMEM == 12
EFAULT == 14
EINVAL == 22
EFBIG == 27
EKEYEXPIRED == 127
EKEYREJECTED == 129

\* enum hash_algo of the kernel's hash_info.h
HASH_ALGO_MD4 == 0
HASH_ALGO_MD5 == 1
HASH_ALGO_SHA1 == 2
HASH_ALGO_RIPE_MD_160 == 3
HASH_ALGO_SHA256 == 4
HASH_ALGO_SHA384 == 5
HASH_ALGO_SHA512 == 6
HASH_ALGO_SHA224 == 7
HASH_ALGO__LAST == 18

(***************************************************************************)
(* sign_verify.c: verify_manifest, one action per step.                    *)
(***************************************************************************)
Times == 0..MaxTime

\* what the providers may return: success or an error
ProviderRcs == {0, -EINVAL}

\* the configured default_sig_hash_algo
SigHashAlgos == {HASH_ALGO_SHA1, HASH_ALGO_SHA256, HASH_ALGO_SHA512}

NoCert == [pub |-> FALSE, valid_from |-> 0, valid_to |-> 0]

\* pc: the next step; res: the local res; ret: the value returned;
\* steps: the steps run so far; cert: the parsed certificate; the raw
\* outcomes met: parsed, keyring, now, shash (calc_shash's result), sigrc
\* (verify_manifest_signature's result); provider: whether
\* public_key_verify_signature was called; certs, tfms: certificates and
\* hash contexts allocated and not yet freed; frees: certificates freed;
\* tfm_allocs, tfm_frees: hash contexts allocated and freed by calc_shash;
\* algo: the configured default_sig_hash_algo; hash_algo: the algorithm of
\* the hash context the digest was computed with (-1: none asked for yet)
VmStart ==
    [pc |-> "parse", res |-> 0, ret |-> 0, steps |-> <<>>, cert |-> NoCert,
     parsed |-> FALSE, keyring |-> 0, now |-> 0, shash |-> 0, sigrc |-> 0,
     algo |-> HASH_ALGO_SHA1, sig_null |-> FALSE, data_null |-> FALSE,
     provider |-> FALSE, certs |-> 0, frees |-> 0, tfms |-> 0,
     tfm_allocs |-> 0, tfm_frees |-> 0, hash_algo |-> -1]

\* a validity window that excludes the instant valid_to
verify_cert_validity_Exclusive(cert, now) ==
    IF now < cert.valid_from \/ now >= cert.valid_to THEN -EFAULT ELSE 0

\* lines 142-155
verify_cert_validity(cert, now) ==
    IF now < cert.valid_from \/ now > cert.valid_to THEN -EFAULT ELSE 0

\* a signature step that takes every algorithm the hash engine knows
SigAlgoSupported_AnyKnown(algo) == algo >= 0 /\ algo < HASH_ALGO__LAST

\* lines 40-51: the hash algorithms a signature may be made with
SigAlgoSupported(algo) == algo \in {HASH_ALGO_SHA1, HASH_ALGO_SHA256}

\* lines 30-64: rc is what public_key_verify_signature returns when called
verify_manifest_signature(algo, sig_null, rc) ==
    IF ~SigAlgoSupported(algo) THEN [ret |-> -EINVAL, called |-> FALSE]
    ELSE IF sig_null THEN [ret |-> -ENOMEM, called |-> FALSE]
    ELSE [ret |-> rc, called |-> TRUE]

\* file_hash_verify.c lines 18-19: the algorithm the tfm is allocated for
appauth_alloc_tfm(algo, default_algo) ==
    IF algo < 0 \/ algo >= HASH_ALGO__LAST THEN default_algo ELSE algo

\* lines 76-103: init, update and final results in turn
calc_hash_tfm(data_null, init, update, final) ==
    IF data_null THEN -EFAULT
    ELSE IF init # 0 THEN init
    ELSE IF update # 0 THEN update
    ELSE final

\* lines 114-133: alloc is the result of appauth_alloc_tfm (0: a tfm)
calc_shash(data_null, alloc, init, update, final) ==
    IF data_null
    THEN [rc |-> -EFAULT, allocated |-> FALSE, freed |-> FALSE]
    ELSE IF alloc # 0
    THEN [rc |-> alloc, allocated |-> FALSE, freed |-> FALSE]
    ELSE [rc |-> calc_hash_tfm(data_null, init, update, final),
          allocated |-> TRUE, freed |-> TRUE]

\* lines 177-181
AfterParse(parsed) ==
    IF ~parsed THEN [pc |-> "done", res |-> 0, ret |-> -CERTIFICATE_FAILURE]
    ELSE [pc |-> "pub", res |-> 0, ret |-> 0]

\* a missing public key that returns at once instead of going to exit
AfterPub_Return(pub) ==
    IF ~pub THEN [pc |-> "done", res |-> -CERTIFICATE_FAILURE]
    ELSE [pc |-> "keyring", res |-> 0]

\* lines 183-187
AfterPub(pub) ==
    IF ~pub THEN [pc |-> "exit", res |-> -CERTIFICATE_FAILURE]
    ELSE [pc |-> "keyring", res |-> 0]

\* a keyring step whose failure is recorded but does not end the run
AfterKeyring_NoExit(rc) ==
    IF rc # 0 THEN [pc |-> "validity", res |-> -CERTIFICATE_FAILURE]
    ELSE [pc |-> "validity", res |-> rc]

\* lines 191-198
AfterKeyring(rc) ==
    IF rc # 0 THEN [pc |-> "exit", res |-> -CERTIFICATE_FAILURE]
    ELSE [pc |-> "validity", res |-> rc]

\* lines 200-205
AfterValidity(rc) ==
    IF rc # 0 THEN [pc |-> "exit", res |-> -CERTIFICATE_EXPIRED]
    ELSE [pc |-> "digest", res |-> rc]

\* lines 208-212
AfterDigest(rc, res) ==
    IF rc < 0 THEN [pc |-> "exit", res |-> -SIGNATURE_FAILURE]
    ELSE [pc |-> "signature", res |-> res]

\* lines 214-219
AfterSignature(rc, res) ==
    IF rc # 0 THEN [pc |-> "exit", res |-> -SIGNATURE_FAILURE]
    ELSE [pc |-> "exit", res |-> res]

V_parse ==
    /\ vm.pc = "parse"
    /\ \E parsed \in BOOLEAN, pub \in BOOLEAN, vf \in Times, vt \in Times,
          sn \in BOOLEAN, dn \in BOOLEAN, algo \in SigHashAlgos :
          /\ parsed \/ (~pub /\ vf = 0 /\ vt = 0)
          /\ vm' = [vm EXCEPT
                      !.pc = AfterParse(parsed).pc,
                      !.ret = AfterParse(parsed).ret,
                      !.steps = Append(@, "parse"),
                      !.parsed = parsed,
                      !.cert = [pub |-> pub, valid_from |-> vf,
                                valid_to |-> vt],
                      !.sig_null = sn, !.data_null = dn, !.algo = algo,
                      !.certs = IF parsed THEN 1 ELSE 0]
    /\ UNCHANGED verifyOthers

V_pub ==
    /\ vm.pc = "pub"
    /\ vm' = [vm EXCEPT
                !.pc = AfterPub(vm.cert.pub).pc,
                !.res = AfterPub(vm.cert.pub).res,
                !.steps = Append(@, "pub")]
    /\ UNCHANGED verifyOthers

V_keyring ==
    /\ vm.pc = "keyring"
    /\ \E rc \in ProviderRcs :
          vm' = [vm EXCEPT
                   !.pc = AfterKeyring(rc).pc,
                   !.res = AfterKeyring(rc).res,
                   !.keyring = rc,
                   !.steps = Append(@, "keyring")]
    /\ UNCHANGED verifyOthers

V_validity ==
    /\ vm.pc = "validity"
    /\ \E now \in Times :
          LET rc == verify_cert_validity(vm.cert, now)
          IN  vm' = [vm EXCEPT
                       !.pc = AfterValidity(rc).pc,
                       !.res = AfterValidity(rc).res,
                       !.now = now,
                       !.steps = Append(@, "validity")]
    /\ UNCHANGED verifyOthers

V_digest ==
    /\ vm.pc = "digest"
    /\ \E alloc \in ProviderRcs, init \in ProviderRcs,
          update \in ProviderRcs, final \in ProviderRcs :
          LET r == calc_shash(vm.data_null, alloc, init, update, final)
          IN  vm' = [vm EXCEPT
                       !.pc = AfterDigest(r.rc, vm.res).pc,
                       !.res = AfterDigest(r.rc, vm.res).res,
                       !.shash = r.rc,
                       !.tfm_allocs = IF r.allocated THEN @ + 1 ELSE @,
                       !.tfm_frees = IF r.freed THEN @ + 1 ELSE @,
                       !.hash_algo =
                           IF vm.data_null THEN @
                           ELSE appauth_alloc_tfm(vm.algo,
                                                  hcfg.default_algo),
                       !.steps = Append(@, "digest")]
    /\ UNCHANGED verifyOthers

V_signature ==
    /\ vm.pc = "signature"
    /\ \E rc \in ProviderRcs :
          LET r == verify_manifest_signature(vm.algo, vm.sig_null, rc)
          IN  vm' = [vm EXCEPT
                       !.pc = AfterSignature(r.ret, vm.res).pc,
                       !.res = AfterSignature(r.ret, vm.res).res,
                       !.sigrc = r.ret,
                       !.provider = r.called,
                       !.steps = Append(@, "signature")]
    /\ UNCHANGED verifyOthers

\* lines 222-224
V_exit ==
    /\ vm.pc = "exit"
    /\ vm' = [vm EXCEPT
                !.pc = "done", !.ret = vm.res,
                !.certs = @ - 1, !.frees = @ + 1]
    /\ UNCHANGED verifyOthers

VerifyNext ==
    \/ V_parse
    \/ V_pub
    \/ V_keyring
    \/ V_validity
    \/ V_digest
    \/ V_signature
    \/ V_exit

VerifyIdle == vm = VmStart

(***************************************************************************)
(* Claims on verify_manifest.                                              *)
(***************************************************************************)
StepOrder == <<"parse", "pub", "keyring", "validity", "digest", "signature">>

\* whether the i-th step succeeded, from what the step met
StepOk(i) ==
    CASE i = 1 -> vm.parsed
      [] i = 2 -> vm.cert.pub
      [] i = 3 -> vm.keyring = 0
      [] i = 4 -> vm.cert.valid_from <= vm.now /\ vm.now <= vm.cert.valid_to
      [] i = 5 -> vm.shash = 0
      [] i = 6 -> vm.sigrc = 0

\* C6: verify_manifest runs parse, public key, keyring, validity, digest,
\* signature in this order, runs no step after a failed one, returns
\* CertificateFailure for a failure of steps 1-3, CertificateExpired for
\* step 4, SignatureFailure for steps 5-6, and 0 only if all six succeeded.
C6_StepsInOrderShortCircuit ==
    /\ \A i \in 1..Len(vm.steps) : vm.steps[i] = StepOrder[i]
    /\ \A i \in 1..(Len(vm.steps) - 1) : StepOk(i)
    /\ vm.pc = "done" =>
        /\ Len(vm.steps) >= 1
        /\ Len(vm.steps) < 6 => ~StepOk(Len(vm.steps))
        /\ vm.ret = (IF StepOk(Len(vm.steps)) THEN 0
                     ELSE IF Len(vm.steps) <= 3 THEN -CERTIFICATE_FAILURE
                     ELSE IF Len(vm.steps) = 4 THEN -CERTIFICATE_EXPIRED
                     ELSE -SIGNATURE_FAILURE)
        /\ vm.ret = 0 => (Len(vm.steps) = 6 /\ \A i \in 1..6 : StepOk(i))

\* C6 witness: the keyring check failed; verify_manifest returned
\* CertificateFailure after three steps.
C6_Witness ==
    /\ vm.pc = "done"
    /\ vm.steps = <<"parse", "pub", "keyring">>
    /\ vm.keyring # 0
    /\ vm.ret = -CERTIFICATE_FAILURE

\* C7: once the certificate parsed, has a public key and passed the
\* keyring, the validity step accepts it iff valid_from <= now <= valid_to;
\* outside the window verify_manifest returns CertificateExpired and the
\* signature provider is never called.
C7_ValidityWindowInclusive ==
    Len(vm.steps) >= 4 =>
        LET inside == vm.cert.valid_from <= vm.now
                      /\ vm.now <= vm.cert.valid_to
            accepted == Len(vm.steps) > 4 \/ vm.pc = "digest"
        IN  /\ inside <=> accepted
            /\ ~inside =>
                /\ ~vm.provider
                /\ \A i \in 1..Len(vm.steps) : vm.steps[i] # "signature"
                /\ vm.pc = "done" => vm.ret = -CERTIFICATE_EXPIRED

\* C7 witness: a certificate on the last second of its window was accepted
\* and the call went on to return 0.
C7_Witness ==
    /\ vm.pc = "done"
    /\ vm.ret = 0
    /\ vm.now = vm.cert.valid_to
    /\ vm.cert.valid_from < vm.now

\* C19: the digest of the signed data is made with the configured
\* default_sig_hash_algo; when that algorithm is neither SHA-1 nor SHA-256,
\* or the signature pointer is null, the signature step fails without
\* calling public_key_verify_signature and verify_manifest returns
\* SignatureFailure.
C19_DefaultSigAlgoOnly ==
    LET ran(step) == \E i \in 1..Len(vm.steps) : vm.steps[i] = step
        rejects == /\ ~vm.provider
                   /\ vm.sigrc # 0
                   /\ vm.pc = "done" => vm.ret = -SIGNATURE_FAILURE
    IN  /\ (ran("digest") /\ ~vm.data_null) => vm.hash_algo = vm.algo
        /\ (ran("signature")
            /\ vm.algo \notin {HASH_ALGO_SHA1, HASH_ALGO_SHA256}) => rejects
        /\ (ran("signature") /\ vm.sig_null) => rejects

\* C19 witness: with SHA-512 configured and a signature present the digest
\* succeeded with SHA-512, the signature step ran without the provider and
\* the call returned SignatureFailure.
C19_Witness ==
    /\ vm.pc = "done"
    /\ vm.algo = HASH_ALGO_SHA512
    /\ vm.hash_algo = HASH_ALGO_SHA512
    /\ ~vm.sig_null
    /\ vm.shash = 0
    /\ Len(vm.steps) = 6
    /\ ~vm.provider
    /\ vm.ret = -SIGNATURE_FAILURE

(***************************************************************************)
(* file_hash_verify.c.  compute_file_hash calls process_file, which takes  *)
(* the file's f_pos_lock around appauth_calc_file_shash, which allocates   *)
(* the tfm around appauth_calc_file_hash_tfm.  One action per step, per    *)
(* thread.  In SpecHash the threads call process_file on one struct file   *)
(* whose mode is any; in SpecCompute one thread calls compute_file_hash,   *)
(* which opens the file itself.                                           *)
(***************************************************************************)
\* the block size of the engine's reads, scaled down from the page size
PAGE_SIZE == 2

Threads == {1, 2}

NoThread == 0

\* the digest algorithm ids of the manifest, as digest_len[] orders them
ManifestAlgo ==
    <<HASH_ALGO_SHA1, HASH_ALGO_SHA224, HASH_ALGO_SHA256, HASH_ALGO_SHA384,
      HASH_ALGO_SHA512>>

ManifestIds == 0..(DigestLenCount - 1)

\* enum DIGEST_ALGO of app_auth.h: the build has one of these numberings
DigestEnums ==
    { [MD5 |-> 0, SHA1 |-> 1, SHA224 |-> 2, SHA256 |-> 3, SHA384 |-> 4,
       SHA512 |-> 5],
      [SHA1 |-> 0, SHA224 |-> 1, SHA256 |-> 2, SHA384 |-> 3, SHA512 |-> 4,
       MD5 |-> 5] }

\* lines 205-219: the conditions test the enumerators, not digest_algo_id
convert_hash_id(e, digest_algo_id) ==
    IF e.MD5 # 0 THEN HASH_ALGO_MD5
    ELSE IF e.SHA1 # 0 THEN HASH_ALGO_SHA1
    ELSE IF e.SHA224 # 0 THEN HASH_ALGO_SHA224
    ELSE IF e.SHA384 # 0 THEN HASH_ALGO_SHA384
    ELSE IF e.SHA512 # 0 THEN HASH_ALGO_SHA512
    ELSE HASH_ALGO_SHA1

\* lines 58-59 of appauth_kernel_read: n is what kernel_read returns
appauth_kernel_read(f_read, n) == IF ~f_read THEN -EBADF ELSE n

\* lines 109-112: the mode bit and the local read after the toggle
ToggleMode(f_read) ==
    IF ~f_read THEN [f_read |-> TRUE, read |-> TRUE]
    ELSE [f_read |-> f_read, read |-> FALSE]

\* a restore that clears the bit whether or not the call set it
RestoreMode_AlwaysClear(read, f_read) == FALSE

\* lines 133-134
RestoreMode(read, f_read) == IF read THEN FALSE ELSE f_read

\* lines 119-130: where the loop goes after a read of n
AfterRead(n) == IF n < 0 \/ n = 0 THEN "e_restore" ELSE "e_update"

\* lines 137-141: final is what crypto_shash_final returns when called
EngineReturn(rc, final) ==
    IF (IF rc = 0 THEN final ELSE rc) # 0 THEN -HASH_FAILURE ELSE 0

\* lines 247-254: equal is the result of the memcmp
ComputeReturn(ret, equal) ==
    IF ret < 0 THEN ret ELSE IF equal THEN 0 ELSE -HASH_FAILURE

\* The digest bytes recorded in a manifest entry: they begin with the
\* digest by rec.algo of the first rec.n bytes of the file, or (algo
\* HASH_ALGO__LAST) they are the digest of nothing.
RecAlgos ==
    {HASH_ALGO_MD5, HASH_ALGO_SHA1, HASH_ALGO_SHA224, HASH_ALGO_SHA256,
     HASH_ALGO_SHA384, HASH_ALGO_SHA512}

Recorded ==
    [algo : RecAlgos, n : 0..MaxFileSize]
    \cup {[algo |-> HASH_ALGO__LAST, n |-> 0]}

\* the memcmp of line 251, over the hash_digest_size[hash.algo] leading
\* bytes: the digest made by the tfm over the bytes hashed against the
\* leading bytes recorded; digests of different inputs or by different
\* algorithms differ
DigestEqual(tfm, hashed, rec) == rec.algo = tfm /\ rec.n = Len(hashed)

\* pc: the next step; entry: the function called; id, rec: the
\* manifest entry's digest_algo_id and its recorded digest; algo: hash.algo; tfm: the algorithm of the tfm; rc, read, offset,
\* count, i_size, buf: the locals of appauth_calc_file_hash_tfm; mode_in,
\* mode_out: FMODE_READ on its entry and on its return; ran: it ran;
\* eret, ret: its return value and the caller's; hashed: the file bytes
\* folded into the hash; final: crypto_shash_final returned 0;
\* tfm_allocs, tfm_frees: hash contexts allocated and freed; buf_allocs,
\* buf_frees: block buffers allocated and freed
ThreadIdle ==
    [pc |-> "idle", entry |-> "none", id |-> 0,
     rec |-> [algo |-> HASH_ALGO__LAST, n |-> 0],
     algo |-> 0, tfm |-> -1, rc |-> 0, read |-> FALSE, offset |-> 0,
     count |-> 0, i_size |-> 0, buf |-> FALSE, mode_in |-> FALSE,
     mode_out |-> FALSE, ran |-> FALSE, eret |-> 0, ret |-> 0,
     hashed |-> <<>>, final |-> FALSE, tfm_allocs |-> 0, tfm_frees |-> 0,
     buf_allocs |-> 0, buf_frees |-> 0]

\* the algorithms a caller of process_file may put in hash.algo
CallerAlgos == {HASH_ALGO_SHA1, HASH_ALGO_SHA256, HASH_ALGO__LAST, -1}

\* what the crypto and memory providers may return: success or an error
CryptoRcs == {0, -EINVAL}

Start_process_file(t) ==
    /\ th[t].pc = "idle"
    /\ \E a \in CallerAlgos :
          th' = [th EXCEPT ![t] = [ThreadIdle EXCEPT
                    !.pc = "p_lock", !.entry = "process_file", !.algo = a]]
    /\ UNCHANGED <<hcfg, file, hashOthers>>

\* lines 237-244: filp_open(O_RDONLY) fails, or yields a file open for
\* reading; then convert_hash_id
Enter_compute_file_hash(t, id, rec, opened, size) ==
    /\ th[t].pc = "idle"
    /\ IF opened
       THEN /\ th' = [th EXCEPT ![t] = [ThreadIdle EXCEPT
                       !.pc = "p_lock", !.entry = "compute_file_hash",
                       !.id = id, !.rec = rec,
                       !.algo = convert_hash_id(hcfg.enum, id)]]
            /\ file' = [f_read |-> TRUE, f_read0 |-> TRUE,
                        lock |-> NoThread, i_size |-> size]
       ELSE /\ th' = [th EXCEPT ![t] = [ThreadIdle EXCEPT
                       !.pc = "done", !.entry = "compute_file_hash",
                       !.id = id, !.rec = rec, !.ret = -EBADF]]
            /\ UNCHANGED file
    /\ UNCHANGED <<hcfg, hashOthers>>

\* compute_file_hash called with any id of the manifest, any recorded
\* digest and any file
Start_compute_file_hash(t) ==
    \E id \in ManifestIds, rec \in Recorded, opened \in BOOLEAN,
       size \in 0..MaxFileSize :
       Enter_compute_file_hash(t, id, rec, opened, size)

\* compute_file_hash called for a manifest entry made from the file as it
\* is: the id of the entry and the digest of the file by the algorithm of
\* that id
Start_compute_entry(t) ==
    \E id \in ManifestIds, opened \in BOOLEAN, size \in 0..MaxFileSize :
       Enter_compute_file_hash(t, id,
           [algo |-> ManifestAlgo[id + 1], n |-> size], opened, size)

\* a lock that is taken without waiting for its holder
P_lock_NoWait(t) ==
    /\ th[t].pc = "p_lock"
    /\ file' = [file EXCEPT !.lock = t]
    /\ th' = [th EXCEPT ![t].pc = "s_alloc"]
    /\ UNCHANGED <<hcfg, hashOthers>>

\* line 190
P_lock(t) ==
    /\ th[t].pc = "p_lock"
    /\ file.lock = NoThread
    /\ file' = [file EXCEPT !.lock = t]
    /\ th' = [th EXCEPT ![t].pc = "s_alloc"]
    /\ UNCHANGED <<hcfg, hashOthers>>

\* lines 162-166
S_alloc(t) ==
    /\ th[t].pc = "s_alloc"
    /\ \E rc \in CryptoRcs :
          IF rc # 0
          THEN th' = [th EXCEPT ![t].pc = "p_unlock",
                                ![t].ret = -HASH_FAILURE]
          ELSE th' = [th EXCEPT
                        ![t].pc = "e_init",
                        ![t].tfm_allocs = @ + 1,
                        ![t].tfm = appauth_alloc_tfm(th[t].algo,
                                                     hcfg.default_algo)]
    /\ UNCHANGED <<hcfg, file, hashOthers>>

\* lines 83-97
E_init(t) ==
    /\ th[t].pc = "e_init"
    /\ \E rc \in CryptoRcs :
          th' = [th EXCEPT
                   ![t].rc = rc,
                   ![t].ran = TRUE,
                   ![t].mode_in = file.f_read,
                   ![t].mode_out = file.f_read,
                   ![t].pc = IF rc # 0 THEN "s_free" ELSE "e_isize",
                   ![t].eret = IF rc # 0 THEN -HASH_FAILURE ELSE 0]
    /\ UNCHANGED <<hcfg, file, hashOthers>>

\* a size test without the shortcut for the empty file
E_isize_NoShortcut(t) ==
    /\ th[t].pc = "e_isize"
    /\ th' = [th EXCEPT ![t].i_size = file.i_size, ![t].pc = "e_kzalloc"]
    /\ UNCHANGED <<hcfg, file, hashOthers>>

\* lines 99-103
E_isize(t) ==
    /\ th[t].pc = "e_isize"
    /\ th' = [th EXCEPT
                ![t].i_size = file.i_size,
                ![t].pc = IF file.i_size = 0 THEN "e_final"
                          ELSE "e_kzalloc"]
    /\ UNCHANGED <<hcfg, file, hashOthers>>

\* lines 105-107
E_kzalloc(t) ==
    /\ th[t].pc = "e_kzalloc"
    /\ \E ok \in BOOLEAN :
          IF ok
          THEN th' = [th EXCEPT ![t].buf = TRUE, ![t].buf_allocs = @ + 1,
                                ![t].pc = "e_toggle"]
          ELSE th' = [th EXCEPT ![t].pc = "s_free",
                                ![t].eret = -ENOMEM,
                                ![t].mode_out = file.f_read]
    /\ UNCHANGED <<hcfg, file, hashOthers>>

\* lines 109-112
E_toggle(t) ==
    /\ th[t].pc = "e_toggle"
    /\ file' = [file EXCEPT !.f_read = ToggleMode(file.f_read).f_read]
    /\ th' = [th EXCEPT ![t].read = ToggleMode(file.f_read).read,
                        ![t].pc = "e_loop"]
    /\ UNCHANGED <<hcfg, hashOthers>>

\* lines 114-126: the loop test and one read; kernel_read returns an
\* error, 0 at the end of the file, or up to a block of the bytes left
E_loop(t) ==
    /\ th[t].pc = "e_loop"
    /\ IF ~(th[t].offset < th[t].i_size)
       THEN th' = [th EXCEPT ![t].pc = "e_restore"]
       ELSE \E k \in {-EIO} \cup
                     (0..Min(PAGE_SIZE, th[t].i_size - th[t].offset)) :
              LET n == appauth_kernel_read(file.f_read, k)
              IN  th' = [th EXCEPT
                           ![t].pc = AfterRead(n),
                           ![t].rc = IF n < 0 THEN n ELSE @,
                           ![t].offset = IF n > 0 THEN @ + n ELSE @,
                           ![t].count = IF n > 0 THEN @ + 1 ELSE @,
                           ![t].buf = TRUE]
    /\ UNCHANGED <<hcfg, file, hashOthers>>

\* lines 128-130: the block just read is folded into the hash
E_update(t) ==
    /\ th[t].pc = "e_update"
    /\ \E rc \in CryptoRcs :
          th' = [th EXCEPT
                   ![t].rc = rc,
                   ![t].hashed =
                       @ \o [i \in 1..(th[t].offset - Len(@)) |->
                                Len(@) + i],
                   ![t].pc = IF rc # 0 THEN "e_restore" ELSE "e_loop"]
    /\ UNCHANGED <<hcfg, file, hashOthers>>

\* lines 133-135
E_restore(t) ==
    /\ th[t].pc = "e_restore"
    /\ file' = [file EXCEPT !.f_read = RestoreMode(th[t].read, file.f_read)]
    /\ th' = [th EXCEPT ![t].buf = FALSE, ![t].buf_frees = @ + 1,
                        ![t].pc = "e_final"]
    /\ UNCHANGED <<hcfg, hashOthers>>

\* lines 136-141
E_final(t) ==
    /\ th[t].pc = "e_final"
    /\ \E final \in CryptoRcs :
          th' = [th EXCEPT
                   ![t].final = (th[t].rc = 0 /\ final = 0),
                   ![t].eret = EngineReturn(th[t].rc, final),
                   ![t].mode_out = file.f_read,
                   ![t].pc = "s_free"]
    /\ UNCHANGED <<hcfg, file, hashOthers>>

\* lines 168-172
S_free(t) ==
    /\ th[t].pc = "s_free"
    /\ th' = [th EXCEPT ![t].ret = th[t].eret, ![t].tfm_frees = @ + 1,
                        ![t].pc = "p_unlock"]
    /\ UNCHANGED <<hcfg, file, hashOthers>>

\* lines 192-195, and for compute_file_hash lines 246-254
\* line 194: hash_digest_size[hash->algo] is read inside the table
DigestSizeInTable(algo) == 0 <= algo /\ algo < HASH_ALGO__LAST

\* lines 192-195, and lines 246-254 of the caller.  After the unlock the
\* digest is dumped over hash_digest_size[hash->algo] bytes: for an algo
\* outside the table the size is whatever lies beside it, and the dump
\* either returns or faults (pc "fault": process_file never returns).
P_unlock(t) ==
    /\ th[t].pc = "p_unlock"
    /\ file' = [file EXCEPT !.lock = NoThread]
    /\ \/ th' = [th EXCEPT
                   ![t].pc = "done",
                   ![t].ret =
                       IF th[t].entry = "compute_file_hash"
                       THEN ComputeReturn(th[t].ret,
                                DigestEqual(th[t].tfm, th[t].hashed,
                                            th[t].rec))
                       ELSE @]
       \/ /\ ~DigestSizeInTable(th[t].algo)
          /\ th' = [th EXCEPT ![t].pc = "fault"]
    /\ UNCHANGED <<hcfg, hashOthers>>

\* the caller takes the result
Return(t) ==
    /\ th[t].pc = "done"
    /\ th' = [th EXCEPT ![t] = ThreadIdle]
    /\ UNCHANGED <<hcfg, file, hashOthers>>

HashNext ==
    \E t \in Threads :
        \/ Start_process_file(t)
        \/ P_lock(t)
        \/ S_alloc(t)
        \/ E_init(t)
        \/ E_isize(t)
        \/ E_kzalloc(t)
        \/ E_toggle(t)
        \/ E_loop(t)
        \/ E_update(t)
        \/ E_restore(t)
        \/ E_final(t)
        \/ S_free(t)
        \/ P_unlock(t)
        \/ Return(t)

\* one caller of compute_file_hash
ComputeNext ==
    \E t \in {1} :
        \/ Start_compute_file_hash(t)
        \/ P_lock(t)
        \/ S_alloc(t)
        \/ E_init(t)
        \/ E_isize(t)
        \/ E_kzalloc(t)
        \/ E_toggle(t)
        \/ E_loop(t)
        \/ E_update(t)
        \/ E_restore(t)
        \/ E_final(t)
        \/ S_free(t)
        \/ P_unlock(t)
        \/ Return(t)

HashConfigs ==
    [enum : DigestEnums, default_algo : {HASH_ALGO_SHA1, HASH_ALGO_SHA256}]

HashIdle ==
    /\ hcfg = [enum |-> CHOOSE e \in DigestEnums : e.MD5 = 0,
               default_algo |-> HASH_ALGO_SHA1]
    /\ file = [f_read |-> TRUE, f_read0 |-> TRUE, lock |-> NoThread,
               i_size |-> 0]
    /\ th = [t \in Threads |-> ThreadIdle]

HashInit ==
    /\ hcfg \in HashConfigs
    /\ file \in [f_read : BOOLEAN, f_read0 : BOOLEAN, lock : {NoThread},
                 i_size : 0..MaxFileSize]
    /\ file.f_read0 = file.f_read
    /\ th = [t \in Threads |-> ThreadIdle]

(***************************************************************************)
(* Claims on the file digest engine.                                       *)
(***************************************************************************)
\* the recorded digest is that of the whole file by the algorithm of the
\* entry's digest_algo_id
RecIsEntryDigest(t) ==
    th[t].rec = [algo |-> ManifestAlgo[th[t].id + 1], n |-> file.i_size]

\* C8: compute_file_hash digests the file with the algorithm of the
\* manifest entry's digest_algo_id and returns 0 iff the digest made is
\* equal to the recorded one; a mismatch returns HashFailure.
C8_EntryAlgorithmUsed ==
    \A t \in Threads :
        (th[t].pc = "done" /\ th[t].entry = "compute_file_hash"
         /\ th[t].ran) =>
            /\ th[t].tfm = ManifestAlgo[th[t].id + 1]
            /\ th[t].ret = 0 <=>
                   (th[t].final /\ RecIsEntryDigest(t)
                    /\ th[t].hashed = [i \in 1..file.i_size |-> i])
            /\ (th[t].final /\ ~RecIsEntryDigest(t))
                   => th[t].ret = -HASH_FAILURE

\* C10: on every return of appauth_calc_file_hash_tfm the FMODE_READ bit
\* is what it was on entry; the bit is set by the call only if it was
\* clear, and only then cleared again.
C10_ReadModeRestored ==
    \A t \in Threads :
        /\ (th[t].ran /\ th[t].pc \in {"s_free", "p_unlock", "done"})
               => th[t].mode_out = th[t].mode_in
        /\ th[t].read => ~th[t].mode_in
        /\ th[t].pc \in {"e_loop", "e_update", "e_restore"}
               => (file.f_read /\ (th[t].read <=> ~th[t].mode_in))

\* C10 witness: the bit was clear on entry, the call set it, a read
\* failed, and the call has returned HashFailure.
C10_Witness ==
    \E t \in Threads :
        /\ th[t].pc = "s_free"
        /\ th[t].read
        /\ ~th[t].mode_in
        /\ th[t].rc = -EIO
        /\ th[t].eret = -HASH_FAILURE

\* the steps of process_file between mutex_lock and mutex_unlock
InLock ==
    {"s_alloc", "e_init", "e_isize", "e_kzalloc", "e_toggle", "e_loop",
     "e_update", "e_restore", "e_final", "s_free", "p_unlock"}

\* C11: with several process_file calls on one struct file, the toggle,
\* the reads and the restore of a call run with f_pos_lock held by it, so
\* at most one call is between lock and unlock, no read finds FMODE_READ
\* cleared by another call, and whenever no call holds the lock the bit
\* has its original value.
C11_ToggleSerialised ==
    /\ \A t \in Threads : th[t].pc \in InLock => file.lock = t
    /\ \A t \in Threads :
           th[t].pc \in {"e_loop", "e_update", "e_restore"} => file.f_read
    /\ \A t \in Threads : th[t].rc # -EBADF
    /\ file.lock = NoThread => file.f_read = file.f_read0

\* C11 witness: one call is folding its second block into the hash, having
\* set the bit itself, while the other waits for the lock.
C11_Witness ==
    /\ th[1].pc = "e_update" /\ th[1].read /\ th[1].count = 2
    /\ th[2].pc = "p_lock"
    /\ ~file.f_read0

\* C12: every failure on the digest path of compute_file_hash (no tfm, no
\* block buffer, crypto_shash_init, a read, crypto_shash_update or
\* crypto_shash_final failing) is returned as HashFailure, and after a
\* failed read or update no further block is read.
C12_AllFailuresHashFailure ==
    \A t \in Threads :
        th[t].entry = "compute_file_hash" =>
            /\ (th[t].pc = "p_unlock" /\ ~th[t].ran)
                   => th[t].ret = -HASH_FAILURE
            /\ (th[t].pc = "done" /\ th[t].ran /\ ~th[t].final)
                   => th[t].ret = -HASH_FAILURE
            /\ th[t].pc \in {"e_loop", "e_update"} => th[t].rc = 0

\* the engine has returned to appauth_calc_file_shash
EngineReturned(t) ==
    th[t].ran /\ th[t].pc \in {"s_free", "p_unlock", "done", "fault"}

\* C16: when the digest engine returns success the blocks folded into the
\* hash are, in order, the bytes of the file from offset 0 to its size,
\* each once, however the reads split them (a read gives at most a page);
\* a read error makes the call fail; success is never returned for a
\* digest of a proper prefix of the file.
C16_WholeFileHashed ==
    \A t \in Threads :
        /\ \A i \in 1..Len(th[t].hashed) : th[t].hashed[i] = i
        /\ Len(th[t].hashed) <= th[t].count * PAGE_SIZE
        /\ (EngineReturned(t) /\ th[t].rc = -EIO)
               => th[t].eret = -HASH_FAILURE
        /\ (EngineReturned(t) /\ th[t].eret = 0)
               => th[t].hashed = [i \in 1..th[t].i_size |-> i]

\* C17: on a file of size 0 the digest engine allocates no block buffer,
\* reads nothing, leaves FMODE_READ alone, and returns 0 exactly when
\* crypto_shash_init and crypto_shash_final succeed, the hash being
\* finalised after no update.
C17_EmptyFile ==
    file.i_size = 0 =>
        /\ file.f_read = file.f_read0
        /\ \A t \in Threads :
               th[t].ran =>
                   /\ th[t].buf_allocs = 0 /\ ~th[t].buf
                   /\ th[t].count = 0 /\ th[t].offset = 0
                   /\ th[t].hashed = <<>>
                   /\ ~th[t].read
                   /\ th[t].pc \notin {"e_kzalloc", "e_toggle", "e_loop",
                                       "e_update", "e_restore"}
                   /\ EngineReturned(t) =>
                          /\ th[t].eret \in {0, -HASH_FAILURE}
                          /\ th[t].eret = 0 <=> th[t].final

\* C17 witness: the engine has returned 0 for an empty file whose handle
\* is not open for reading.
C17_Witness ==
    \E t \in Threads :
        /\ file.i_size = 0 /\ ~file.f_read
        /\ EngineReturned(t) /\ th[t].pc = "s_free"
        /\ th[t].final /\ th[t].eret = 0

(***************************************************************************)
(* Claims on the resources of one verification call: a run makes either    *)
(* one verify_manifest call or calls of compute_file_hash.                 *)
(***************************************************************************)
\* no verify_manifest call is made in the run
VmNone == [VmStart EXCEPT !.pc = "none"]

\* no digest call is made by the thread in the run
ThreadNone == [ThreadIdle EXCEPT !.pc = "none"]

ResourcesInit ==
    \/ /\ vm = VmStart
       /\ hcfg \in HashConfigs
       /\ hcfg.default_algo = HASH_ALGO_SHA1
       /\ file = [f_read |-> TRUE, f_read0 |-> TRUE, lock |-> NoThread,
                  i_size |-> 0]
       /\ th = [t \in Threads |-> ThreadNone]
    \/ /\ vm = VmNone
       /\ HashInit

\* C13: what a verification call acquires it releases exactly once on
\* every exit: verify_manifest frees the certificate once after a parse
\* that succeeded and never after one that failed; calc_shash and
\* appauth_calc_file_shash free the hash context once after an allocation
\* that succeeded; the digest engine frees its block buffer once after it
\* was allocated.
C13_ReleasedExactlyOnce ==
    /\ vm.frees <= 1 /\ vm.tfm_frees <= vm.tfm_allocs /\ vm.tfm_allocs <= 1
    /\ vm.pc = "done" =>
           /\ vm.frees = (IF vm.parsed THEN 1 ELSE 0)
           /\ vm.certs = 0
           /\ vm.tfm_frees = vm.tfm_allocs
    /\ \A t \in Threads :
           /\ th[t].tfm_frees <= th[t].tfm_allocs /\ th[t].tfm_allocs <= 1
           /\ th[t].buf_frees <= th[t].buf_allocs /\ th[t].buf_allocs <= 1
           /\ th[t].pc \in {"s_free", "p_unlock", "done"}
                  => th[t].buf_frees = th[t].buf_allocs
           /\ th[t].pc \in {"p_unlock", "done"}
                  => th[t].tfm_frees = th[t].tfm_allocs

\* C13 witness: a digest call whose second read failed has returned, with
\* its hash context and its block buffer both allocated and freed.
C13_Witness ==
    \E t \in Threads :
        /\ th[t].pc = "done"
        /\ th[t].rc = -EIO /\ th[t].count = 1
        /\ th[t].ret = -HASH_FAILURE
        /\ th[t].tfm_allocs = 1 /\ th[t].tfm_frees = 1
        /\ th[t].buf_allocs = 1 /\ th[t].buf_frees = 1

(***************************************************************************)
(* The two algorithm policies side by side: the iterator reads the entries *)
(* of a manifest while compute_file_hash is called with a recorded id.     *)
(***************************************************************************)
\* manifests of a DATA chunk with no entry or one entry
PolicyBlobs ==
    { StructBlob(FALSE, FALSE, Len(es), <<65, 66, 0>>, es, 0, 0) :
        es \in EntryLists(1) }

PolicyInit ==
    /\ mf \in PolicyBlobs
    /\ ctx = ZeroCtx
    /\ last = NoCall
    /\ hist = NoHist

\* compute_file_hash, the one caller of process_file, called by one thread
EngineNext ==
    \E t \in {1} :
        \/ Start_compute_entry(t)
        \/ P_lock(t)
        \/ S_alloc(t)
        \/ E_init(t)
        \/ E_isize(t)
        \/ E_kzalloc(t)
        \/ E_toggle(t)
        \/ E_loop(t)
        \/ E_update(t)
        \/ E_restore(t)
        \/ E_final(t)
        \/ S_free(t)
        \/ P_unlock(t)
        \/ Return(t)

PATH_MAX == 4096
NAME_MAX == 255

\* strlen(KERNEL_CLIENTS_ID)
KernelClientsIdLen == 13

\* strlen(".manifest")
SuffixLen == 9

\* strlen(CONFIG_APPLICATION_AUTH_MANIFEST_ROOT) in the builds modelled
RootLens == {0, 13}

\* the lengths of the executable paths d_path may return in buf
PathLens == {1, 20, PATH_MAX + NAME_MAX - 1}

\* what verify_manifest_file may return: 0, the negated codes of enum
\* APP_AUTH_ERROR, a raw negative errno, or a code with the wrong sign
Verdicts ==
    {0, -MALFORMED_MANIFEST, -CERTIFICATE_FAILURE, -CERTIFICATE_EXPIRED,
     -CAPS_FAILURE, -SIGNATURE_FAILURE, -EXE_NOT_FOUND, -FILE_TOO_BIG,
     -HASH_FAILURE, -EBADF, -ENOMEM, MALFORMED_MANIFEST}

\* a manifest-path buffer with no room for the terminating NUL
MRootLen_NoNul(rootlen) == PATH_MAX + NAME_MAX + rootlen + 9

\* line 93
MRootLen(rootlen) == PATH_MAX + NAME_MAX + rootlen + 10

\* lines 132-135: the bytes written to mbuf, the terminating NUL included
ManifestPathSize(rootlen, pathlen) == rootlen + 1 + pathlen + SuffixLen + 1

\* a switch whose default leaves res as verify_manifest_file returned it
MapVerdict_PassThrough(res) ==
    CASE -res = MALFORMED_MANIFEST -> -EINVAL
      [] -res = CERTIFICATE_FAILURE -> -EKEYREJECTED
      [] -res = CERTIFICATE_EXPIRED -> -EKEYEXPIRED
      [] -res = CAPS_FAILURE -> -EKEYREJECTED
      [] -res = SIGNATURE_FAILURE -> -EKEYREJECTED
      [] -res = EXE_NOT_FOUND -> -ENOENT
      [] -res = FILE_TOO_BIG -> -EFBIG
      [] -res = HASH_FAILURE -> -EKEYREJECTED
      [] OTHER -> res

\* lines 144-180
MapVerdict(res) ==
    CASE -res = MALFORMED_MANIFEST -> -EINVAL
      [] -res = CERTIFICATE_FAILURE -> -EKEYREJECTED
      [] -res = CERTIFICATE_EXPIRED -> -EKEYEXPIRED
      [] -res = CAPS_FAILURE -> -EKEYREJECTED
      [] -res = SIGNATURE_FAILURE -> -EKEYREJECTED
      [] -res = EXE_NOT_FOUND -> -ENOENT
      [] -res = FILE_TOO_BIG -> -EFBIG
      [] -res = HASH_FAILURE -> -EKEYREJECTED
      [] OTHER -> -EFAULT

\* lines 104-106: where a failed allocation of mbuf goes, and with what res
AfterMbufAlloc(ok, res) ==
    IF ok THEN [pc |-> "path", res |-> res]
    ELSE [pc |-> "out_buf", res |-> res]

\* pc: the next step; res, ret: the local res and the value returned;
\* buf, mbuf: "none", "live" or "freed"; frees: kfree calls on each;
\* rootlen: the length of the manifest root; path: "none", "exe",
\* "kernel" (a kernel thread) or "err"; pathlen: strlen(f_path);
\* written: the bytes written to mbuf; verdict: what verify_manifest_file
\* returned; ran: it was called; client_id: "orig" (not written) or
\* "hash" (zeroed and set to the hash of f_path); mbuf_size: the bytes
\* allocated for mbuf
KcStart ==
    [pc |-> "start", res |-> 0, ret |-> 0, buf |-> "none", mbuf |-> "none",
     buf_frees |-> 0, mbuf_frees |-> 0, rootlen |-> 0, path |-> "none",
     pathlen |-> 0, written |-> 0, verdict |-> 0, ran |-> FALSE,
     client_id |-> "orig", mbuf_size |-> 0]

\* lines 95-101
K_alloc_buf ==
    /\ kc.pc = "start"
    /\ \E null_id \in BOOLEAN, ok \in BOOLEAN, rl \in RootLens :
          kc' = IF null_id
                THEN [kc EXCEPT !.pc = "done", !.ret = -EINVAL,
                                !.rootlen = rl]
                ELSE IF ~ok
                THEN [kc EXCEPT !.pc = "done", !.ret = -ENOMEM,
                                !.rootlen = rl]
                ELSE [kc EXCEPT !.pc = "alloc_mbuf", !.buf = "live",
                                !.rootlen = rl]
    /\ UNCHANGED clientOthers

\* lines 104-106
K_alloc_mbuf ==
    /\ kc.pc = "alloc_mbuf"
    /\ \E ok \in BOOLEAN :
          kc' = [kc EXCEPT
                   !.pc = AfterMbufAlloc(ok, kc.res).pc,
                   !.res = AfterMbufAlloc(ok, kc.res).res,
                   !.mbuf = IF ok THEN "live" ELSE "none",
                   !.mbuf_size = IF ok THEN MRootLen(kc.rootlen) ELSE 0]
    /\ UNCHANGED clientOthers

\* lines 110-129: get_current_process_path returns a path in buf, NULL
\* for a kernel thread, or an error pointer.  Lines 113-114 hand f_path to
\* ks_debug as a %s argument before line 116 tests IS_ERR: with an error
\* pointer the call either goes on to res = -EFAULT (ks_debug compiled
\* out, or the formatter rejecting the pointer) or faults in the formatter
\* (pc "fault": the function never returns and frees nothing).
K_path ==
    /\ kc.pc = "path"
    /\ \/ \E n \in PathLens :
             kc' = [kc EXCEPT !.pc = "verify", !.path = "exe",
                              !.pathlen = n]
       \/ kc' = [kc EXCEPT !.pc = "verify", !.path = "kernel",
                           !.pathlen = KernelClientsIdLen]
       \/ kc' = [kc EXCEPT !.pc = "out_buf", !.path = "err",
                           !.res = -EFAULT]
       \/ kc' = [kc EXCEPT !.pc = "fault", !.path = "err"]
    /\ UNCHANGED clientOthers

\* lines 132-182
K_verify ==
    /\ kc.pc = "verify"
    /\ \E v \in Verdicts :
          kc' = [kc EXCEPT
                   !.written = ManifestPathSize(kc.rootlen, kc.pathlen),
                   !.ran = TRUE,
                   !.verdict = v,
                   !.res = IF v # 0 THEN MapVerdict(v) ELSE v,
                   !.pc = IF v # 0 THEN "out_buf" ELSE "hash"]
    /\ UNCHANGED clientOthers

\* lines 186-191
K_hash ==
    /\ kc.pc = "hash"
    /\ kc' = [kc EXCEPT !.client_id = "hash", !.pc = "out_buf"]
    /\ UNCHANGED clientOthers

\* lines 193-198: kfree(NULL) frees nothing
K_out_buf ==
    /\ kc.pc = "out_buf"
    /\ kc' = [kc EXCEPT
                !.mbuf = IF @ = "live" THEN "freed" ELSE @,
                !.mbuf_frees = IF kc.mbuf = "live" THEN @ + 1 ELSE @,
                !.buf = IF @ = "live" THEN "freed" ELSE @,
                !.buf_frees = IF kc.buf = "live" THEN @ + 1 ELSE @,
                !.ret = kc.res,
                !.pc = "done"]
    /\ UNCHANGED clientOthers

ClientNext ==
    \/ K_alloc_buf
    \/ K_alloc_mbuf
    \/ K_path
    \/ K_verify
    \/ K_hash
    \/ K_out_buf

ClientIdle == kc = KcStart

(***************************************************************************)
(* Claims on keystore_calc_clientid.                                       *)
(***************************************************************************)
\* C9: keystore_calc_clientid returns 0 only if verify_manifest_file ran
\* and returned 0, and then client_id holds the hash of the path; whenever
\* verification did not run or did not accept, a failed allocation of the
\* manifest-path buffer included, it returns non-zero and leaves client_id
\* unwritten.
C9_SuccessOnlyAfterAccept ==
    kc.pc = "done" =>
        /\ kc.ret = 0 =>
               (kc.ran /\ kc.verdict = 0 /\ kc.client_id = "hash")
        /\ (~kc.ran \/ kc.verdict # 0) =>
               (kc.ret # 0 /\ kc.client_id = "orig")

\* the platform error the caller is to get for a verdict
PlatformError ==
    [v \in Verdicts \ {0} |->
        IF v = -MALFORMED_MANIFEST THEN EINVAL
        ELSE IF v \in {-CERTIFICATE_FAILURE, -CAPS_FAILURE,
                       -SIGNATURE_FAILURE, -HASH_FAILURE} THEN EKEYREJECTED
        ELSE IF v = -CERTIFICATE_EXPIRED THEN EKEYEXPIRED
        ELSE IF v = -EXE_NOT_FOUND THEN ENOENT
        ELSE IF v = -FILE_TOO_BIG THEN EFBIG
        ELSE EFAULT]

\* C21: whenever verify_manifest_file returned a non-zero verdict,
\* keystore_calc_clientid returns the negated platform error of that
\* verdict (EINVAL, EKEYREJECTED, EKEYEXPIRED, ENOENT, EFBIG, and EFAULT
\* for every other value), never 0, and does not write client_id.
C21_VerdictTranslated ==
    (kc.ran /\ kc.verdict # 0) =>
        /\ kc.res = -PlatformError[kc.verdict]
        /\ kc.pc \in {"out_buf", "done"}
        /\ kc.pc = "done" =>
               /\ kc.ret = -PlatformError[kc.verdict]
               /\ kc.ret # 0
        /\ kc.client_id = "orig"

\* C21 witness: a raw -EBADF from verify_manifest_file came back as -EFAULT.
C21_Witness ==
    /\ kc.pc = "done"
    /\ kc.ran
    /\ kc.verdict = -EBADF
    /\ kc.ret = -EFAULT

\* C22: the manifest path written to mbuf, its NUL included, fits the
\* PATH_MAX + NAME_MAX + strlen(root) + 10 bytes allocated for it, for
\* every path that fits buf; and every return after an allocation has
\* freed buf and mbuf once each, if they were allocated.
C22_PathFitsAndFreedOnce ==
    /\ kc.mbuf # "none" =>
           kc.mbuf_size = PATH_MAX + NAME_MAX + kc.rootlen + 10
    /\ kc.written > 0 =>
           /\ kc.pathlen < PATH_MAX + NAME_MAX
           /\ kc.written = kc.rootlen + 1 + kc.pathlen + 9 + 1
           /\ kc.written <= kc.mbuf_size
           /\ kc.mbuf # "none"
    /\ kc.buf_frees <= 1
    /\ kc.mbuf_frees <= 1
    /\ kc.pc = "done" =>
           /\ kc.buf # "live"
           /\ kc.mbuf # "live"
           /\ kc.buf = "freed" <=> kc.buf_frees = 1
           /\ kc.mbuf = "freed" <=> kc.mbuf_frees = 1

\* C22 witness: the longest path that fits buf filled mbuf to its last
\* byte, and the call returned with both buffers freed once.
C22_Witness ==
    /\ kc.pc = "done"
    /\ kc.pathlen = PATH_MAX + NAME_MAX - 1
    /\ kc.rootlen = 13
    /\ kc.written = kc.mbuf_size
    /\ kc.buf_frees = 1
    /\ kc.mbuf_frees = 1

(***************************************************************************)
(* The specifications.                                                     *)
(***************************************************************************)
\* the chunk accessors, on every blob
ReaderNext ==
    \/ Call_mf_get_chunk
    \/ Call_mf_get_chunk_data
    \/ Call_mf_get_version
    \/ Call_mf_get_name
    \/ Call_mf_get_app_data

\* the file-list iterator
IterNext ==
    \/ Call_mf_init_file_list_ctx
    \/ Call_mf_get_next_file

InitReader == ReaderInit /\ VerifyIdle /\ HashIdle /\ ClientIdle
InitIter == IterInit /\ VerifyIdle /\ HashIdle /\ ClientIdle
InitVerify == ParserIdle /\ VerifyIdle /\ HashIdle /\ ClientIdle
InitHash == ParserIdle /\ VerifyIdle /\ HashInit /\ ClientIdle
InitClient == ParserIdle /\ VerifyIdle /\ HashIdle /\ ClientIdle

SpecReader == InitReader /\ [][ReaderNext]_vars

SpecIter == InitIter /\ [][IterNext]_vars

SpecVerify == InitVerify /\ [][VerifyNext]_vars

SpecHash == InitHash /\ [][HashNext]_vars

SpecCompute == InitHash /\ [][ComputeNext]_vars

SpecClient == InitClient /\ [][ClientNext]_vars

\* one verify_manifest call, or calls of compute_file_hash
ResourcesNext == VerifyNext \/ ComputeNext

InitResources == ParserIdle /\ ResourcesInit /\ ClientIdle

SpecResources == InitResources /\ [][ResourcesNext]_vars

\* the iterator on one manifest and compute_file_hash calls
PolicyNext == IterNext \/ EngineNext

InitPolicy == PolicyInit /\ VerifyIdle /\ HashInit /\ ClientIdle

SpecPolicy == InitPolicy /\ [][PolicyNext]_vars

=============================================================================
